---------------------------- MODULE Spec2Model ----------------------------
(***************************************************************************)
(* Model of the ALB log pipeline of alb-log-reporter:                      *)
(*   main.process_logs drives ELBLogAnalyzer.download_logs,                *)
(*   decompress_logs, parse_logs, analyze_logs, save_to_excel, clean_up.   *)
(* Times are integers (minutes).  An aware datetime is the pair of its UTC *)
(* instant and its zone offset; Python compares aware datetimes by         *)
(* instant.  A naive datetime is its wall-clock integer.                   *)
(***************************************************************************)
EXTENDS Integers, Sequences, FiniteSets, TLC

\* ---------------------------------------------------------------- bounds
MaxTime == 3
MaxDirs == 2
MaxBases == 2
MaxObjects == 2
MaxPages == 2
MaxWorkers == 2
MaxLines == 2
MaxRecords == 3
MaxOver == 2
MaxExtra == 2
MaxChunks == 2
MaxSlack == 2

Times == 0..MaxTime
TzOffsets == {0 - 1, 0, 1}
Keys == (1..MaxDirs) \X (1..MaxBases)
Bases == 1..MaxBases

None == "None"
\* an optional value is the empty set or a singleton
TheOne(S) == CHOOSE x \in S : TRUE

\* ------------------------------------------------------------- datetimes
\* pytz: tz.localize(naive) reads the wall clock in the zone
Localize(wall, off) == [utc |-> wall - off, off |-> off]
\* datetime.astimezone(tz): same instant, another zone
AsTimezone(dt, off) == [utc |-> dt.utc, off |-> off]
\* datetime.replace(tzinfo=tz): same wall clock, another zone
ReplaceTzinfo(dt, off) == [utc |-> (dt.utc + dt.off) - off, off |-> off]
\* datetime.replace(tzinfo=None): the wall clock of an aware datetime
NaiveWall(dt) == dt.utc + dt.off
\* datetime.now(tz)
NowIn(clk, off) == [utc |-> clk, off |-> off]
\* d1 < d2, d1 <= d2 on aware datetimes
DtLess(d1, d2) == d1.utc < d2.utc
DtLeq(d1, d2) == d1.utc <= d2.utc

\* ELBLogAnalyzer.__init__: the four datetime attributes of the analyzer.
\* The arguments are the '%Y-%m-%d %H:%M' strings of naive datetimes; the end
\* is optional ({} when it is empty or None).
ELBLogAnalyzer_init(start_wall, end_opt, off, clk) ==
    LET s == Localize(start_wall, off)
        current_time == NowIn(clk, off)
        e0 == IF end_opt # {} THEN Localize(TheOne(end_opt), off) ELSE current_time
        e == IF DtLess(e0, s) THEN current_time ELSE e0
    IN  [start_datetime |-> s,
         end_datetime |-> e,
         start_datetime_utc |-> AsTimezone(s, 0),
         end_datetime_utc |-> AsTimezone(e, 0)]

\* download_logs, lines 50-51: the window test on one listed object
InWindow_ExclusiveEnd(an, obj) ==
    LET last_modified == ReplaceTzinfo(obj.LastModified, 0)
    IN  DtLeq(an.start_datetime_utc, last_modified)
        /\ DtLess(last_modified, an.end_datetime_utc)
InWindow(an, obj) ==
    LET last_modified == ReplaceTzinfo(obj.LastModified, 0)
    IN  DtLeq(an.start_datetime_utc, last_modified)
        /\ DtLeq(last_modified, an.end_datetime_utc)

RECURSIVE SelectFromPage(_, _)
\* lines 49-52: the keys of one page's Contents that fall in the window, in order
SelectFromPage(an, contents) ==
    IF contents = <<>> THEN <<>>
    ELSE (IF InWindow(an, Head(contents)) THEN <<Head(contents).Key>> ELSE <<>>)
         \o SelectFromPage(an, Tail(contents))

\* os.path.basename(file_key): a key is <<directory, base name>>
Basename(k) == k[2]

\* ----------------------------------------------------------- line parser
\* Tokens a log line can carry in the fields the parser inspects.
DurTokens == {"-", "0.5", "1.0", "abc", "-0.2"}
RequestTokens == {"GET /a HTTP/1.1", "GET /b HTTP/1.1", "GET"}
TsTokens == {"2024-01-01T00:00:00.000000Z", "2024-01-01T00:01:00.000000Z",
             "2024-01-01T00:00:00Z"}
UserAgents == {"-", "curl/8.0"}
ClientAddrs == {"1.2.3.4:5000", "1.2.3.4:6000"}
TargetAddrs == {"-", "10.0.0.1:80"}
ElbCodes == {"200"}
TargetCodes == {"200"}

\* A line either fails the 30-group pattern of line 138 (grammar = FALSE) or
\* is the groupdict of its match.  The groups that _parse_log_line only
\* copies (ssl_cipher ... conn_trace_id) are represented by redirect_url
\* and conn_trace_id.
NoMatchLine == [grammar |-> FALSE]
MatchedLines ==
    [grammar : {TRUE}, timestamp : TsTokens, client_ip : ClientAddrs,
     target_ip : TargetAddrs, request_processing_time : DurTokens,
     target_processing_time : DurTokens, response_processing_time : DurTokens,
     elb_status_code : ElbCodes, target_status_code : TargetCodes,
     request : RequestTokens, user_agent : UserAgents,
     redirect_url : {"-"}, conn_trace_id : {"TID_1"}]
Lines == {NoMatchLine} \cup MatchedLines

\* float(token) in thousandths; the empty set when float raises ValueError
Float(tok) ==
    CASE tok = "0.5" -> {500}
      [] tok = "1.0" -> {1000}
      [] tok = "-0.2" -> {0 - 200}
      [] OTHER -> {}

\* _parse_time_field: {v} for a returned number, {} for a returned None
parse_time_field_ZeroOnError(time_field) ==
    IF time_field # "-" /\ Float(time_field) # {} THEN Float(time_field) ELSE {0}
parse_time_field(time_field) ==
    IF time_field # "-" THEN Float(time_field) ELSE {0}

\* re.match(r'(?P<method>\S+)\s+(?P<url>\S+)\s+(?P<version>\S+)', request):
\* {url} when it matches, {} when it does not
RequestUrl(request) ==
    CASE request = "GET /a HTTP/1.1" -> {"/a"}
      [] request = "GET /b HTTP/1.1" -> {"/b"}
      [] OTHER -> {}

\* _parse_timestamp: strptime(s, '%Y-%m-%dT%H:%M:%S.%fZ').replace(tzinfo=utc);
\* {} when strptime raises ValueError
parse_timestamp(timestamp_str) ==
    CASE timestamp_str = "2024-01-01T00:00:00.000000Z" -> {[utc |-> 0, off |-> 0]}
      [] timestamp_str = "2024-01-01T00:01:00.000000Z" -> {[utc |-> 1, off |-> 0]}
      [] OTHER -> {}

\* str.split(':')[0]
SplitColonHead(addr) ==
    CASE addr = "1.2.3.4:5000" -> "1.2.3.4"
      [] addr = "1.2.3.4:6000" -> "1.2.3.4"
      [] addr = "10.0.0.1:80" -> "10.0.0.1"
      [] OTHER -> addr

\* line 165: the placeholder user agent is rejected
RejectsUserAgent_Never(ua) == FALSE
RejectsUserAgent(ua) == ua = "-"

\* _parse_log_line: [kind |-> "record", rec |-> r], [kind |-> "None"] or
\* [kind |-> "raise"] (the ValueError of _parse_timestamp, not caught)
parse_log_line(line, off) ==
    IF ~line.grammar THEN [kind |-> "None"]
    ELSE IF RequestUrl(line.request) = {} THEN [kind |-> "None"]
    ELSE
      LET request_processing_time == parse_time_field(line.request_processing_time)
          target_processing_time == parse_time_field(line.target_processing_time)
          response_processing_time == parse_time_field(line.response_processing_time)
      IN
      IF {} \in {request_processing_time, target_processing_time,
                 response_processing_time}
      THEN [kind |-> "None"]
      ELSE IF parse_timestamp(line.timestamp) = {} THEN [kind |-> "raise"]
      ELSE IF RejectsUserAgent(line.user_agent) THEN [kind |-> "None"]
      ELSE
        LET timestamp == AsTimezone(TheOne(parse_timestamp(line.timestamp)), off)
        IN [kind |-> "record",
            rec |-> [timestamp |-> NaiveWall(timestamp),
                     client_ip |-> SplitColonHead(line.client_ip),
                     target_ip |-> IF line.target_ip # "-"
                                   THEN SplitColonHead(line.target_ip) ELSE None,
                     request_processing_time |-> TheOne(request_processing_time),
                     target_processing_time |-> TheOne(target_processing_time),
                     response_processing_time |-> TheOne(response_processing_time),
                     elb_status_code |-> line.elb_status_code,
                     target_status_code |-> line.target_status_code,
                     request |-> TheOne(RequestUrl(line.request)),
                     response_time |-> TheOne(request_processing_time)
                                       + TheOne(target_processing_time)
                                       + TheOne(response_processing_time),
                     user_agent |-> line.user_agent,
                     redirect_url |-> line.redirect_url,
                     conn_trace_id |-> line.conn_trace_id]]

RECURSIVE parse_log_file(_, _)
\* _parse_log_file: the records of the lines in order; an exception of
\* _parse_log_line leaves the loop and the function
parse_log_file(lines, off) ==
    IF lines = <<>> THEN [kind |-> "ok", logs |-> <<>>]
    ELSE LET entry == parse_log_line(Head(lines), off)
             rest == parse_log_file(Tail(lines), off)
         IN  IF entry.kind = "raise" THEN [kind |-> "raise", logs |-> <<>>]
             ELSE IF rest.kind = "raise" THEN rest
             ELSE [kind |-> "ok",
                   logs |-> (IF entry.kind = "record" THEN <<entry.rec>> ELSE <<>>)
                            \o rest.logs]

\* --------------------------------------------------------------- analysis
\* most_common(100) (235, 237, 238) and head(100) (330)
TopN == 100
\* 'response_time >= 1.0' (286), in thousandths like Float
SlowThreshold == 1000

Min(a, b) == IF a <= b THEN a ELSE b

\* str.startswith(d) for a one-character d: the first character of the code
FirstChar(code) ==
    CASE code = "101" -> "1"
      [] code = "200" -> "2"
      [] code = "301" -> "3"
      [] code = "404" -> "4"
      [] code \in {"502", "503"} -> "5"
      [] OTHER -> "-"
startswith(code, d) == FirstChar(code) = d

\* a dict (defaultdict(int), Counter) is the sequence of its items in
\* insertion order.  After d[k] += 1 for every k of ks in turn, the keys
\* stand in the order of their first occurrence, each with the number of
\* its occurrences
Incremented(ks) ==
    LET n == Len(ks)
        firsts == SelectSeq([i \in 1..n |-> i],
                            LAMBDA i : \A j \in 1..(i - 1) : ks[j] # ks[i])
    IN  [p \in 1..Len(firsts) |->
            [key |-> ks[firsts[p]],
             val |-> Cardinality({j \in 1..n : ks[j] = ks[firsts[p]]})]]

Reverse(s) == [i \in 1..Len(s) |-> s[Len(s) + 1 - i]]

\* the integers of the set S as a sequence, ascending or descending
KeysInOrder(S, ascending) ==
    [p \in 1..Cardinality(S) |->
        CHOOSE k \in S : Cardinality({h \in S : IF ascending THEN h < k ELSE h > k}) = p - 1]

RECURSIVE GroupsJoined(_, _, _, _)
\* the elements of s whose value at col is ks[1], then those whose value is
\* ks[2], ..., each group in the order of s or in the opposite order
GroupsJoined(s, col, ks, kept) ==
    IF ks = <<>> THEN <<>>
    ELSE LET group == SelectSeq(s, LAMBDA x : x[col] = Head(ks))
         IN  (IF kept THEN group ELSE Reverse(group))
             \o GroupsJoined(s, col, Tail(ks), kept)

\* s sorted by the integer its elements hold at col (a column of a row, a
\* field of an item); elements of equal key keep their order (a stable
\* sort) or come out in the opposite order
SortedBy(s, col, ascending, kept) ==
    GroupsJoined(s, col, KeysInOrder({s[i][col] : i \in 1..Len(s)}, ascending), kept)

\* DataFrame.sort_values with the default kind='quicksort': rows of equal
\* key come out in an order the numpy build decides; two of its outcomes
TieOrders == {"kept", "reversed"}
sort_values(s, col, ascending, tie) == SortedBy(s, col, ascending, tie = "kept")

\* Counter.most_common(n): heapq.nlargest(n, items, key=count), which is
\* sorted(items, key=count, reverse=True)[:n], a stable sort
most_common_Unstable(counter, n) ==
    SubSeq(SortedBy(counter, "val", FALSE, FALSE), 1, Min(n, Len(counter)))
most_common(counter, n) ==
    SubSeq(SortedBy(counter, "val", FALSE, TRUE), 1, Min(n, Len(counter)))

\* the six status dicts and the slow list of analyze_logs (217-223)
EmptyBuckets ==
    [elb_2xx_counts |-> <<>>, elb_3xx_counts |-> <<>>, elb_4xx_counts |-> <<>>,
     elb_5xx_counts |-> <<>>, target_4xx_counts |-> <<>>,
     target_5xx_counts |-> <<>>, long_response_times |-> <<>>]

StatusKey(log) ==
    <<log.timestamp, log.client_ip, log.target_ip, log.request,
      log.elb_status_code, log.target_status_code>>
RedirectKey(log) ==
    <<log.timestamp, log.client_ip, log.target_ip, log.request,
      log.redirect_url, log.elb_status_code, log.target_status_code>>

\* _categorize_log_entry 260-276: the if/elif chain on the ELB code names
\* the dict the entry is counted in, if any
ElbBucket(log) ==
    IF startswith(log.elb_status_code, "2") THEN "elb_2xx_counts"
    ELSE IF startswith(log.elb_status_code, "3") THEN "elb_3xx_counts"
    ELSE IF startswith(log.elb_status_code, "4") THEN "elb_4xx_counts"
    ELSE IF startswith(log.elb_status_code, "5") THEN "elb_5xx_counts"
    ELSE "none"

\* _categorize_log_entry 278-284: the separate if/elif on the backend code
TargetBucket_ByElbCode(log) ==
    IF startswith(log.elb_status_code, "4") THEN "target_4xx_counts"
    ELSE IF startswith(log.elb_status_code, "5") THEN "target_5xx_counts"
    ELSE "none"
TargetBucket(log) ==
    IF startswith(log.target_status_code, "4") THEN "target_4xx_counts"
    ELSE IF startswith(log.target_status_code, "5") THEN "target_5xx_counts"
    ELSE "none"

\* _categorize_log_entry 286-287
IsSlow_Strictly(log) == log.response_time > SlowThreshold
IsSlow(log) == log.response_time >= SlowThreshold

\* the key _categorize_log_entry increments in the dict named bucket
BucketKey(bucket, log) ==
    IF bucket = "elb_3xx_counts" THEN RedirectKey(log) ELSE StatusKey(log)
KeysOf(bucket, logs) == [i \in 1..Len(logs) |-> BucketKey(bucket, logs[i])]

\* the loop of analyze_logs (228-231) on the status dicts and the slow
\* list: every entry in turn is counted in the dicts its codes name and
\* appended to the slow list if it is slow
Categorized(logs) ==
    [bucket \in DOMAIN EmptyBuckets |->
        IF bucket = "long_response_times" THEN SelectSeq(logs, IsSlow)
        ELSE Incremented(KeysOf(bucket,
                 SelectSeq(logs, LAMBDA log : bucket \in {ElbBucket(log), TargetBucket(log)})))]

\* the loop of analyze_logs (232-234) on one Counter: counter[log[f]] += 1
Counted_Once(logs, f) ==
    LET counter == Incremented([i \in 1..Len(logs) |-> logs[i][f]])
    IN  [p \in 1..Len(counter) |-> [key |-> counter[p].key, val |-> 1]]
Counted(logs, f) == Incremented([i \in 1..Len(logs) |-> logs[i][f]])

\* the strings that occur in group keys, in the order Python compares them
StringsInOrder ==
    <<"-", "/a", "/b", "1.2.3.4", "101", "200", "301", "404", "5.6.7.8",
      "502", "503", "https://x/b">>
StrRank(str) == CHOOSE i \in 1..Len(StringsInOrder) : StringsInOrder[i] = str
\* tuple comparison of two group keys of the same length
LexLess(a, b) ==
    \E i \in 1..Len(a) : /\ \A j \in 1..(i - 1) : a[j] = b[j]
                         /\ StrRank(a[i]) < StrRank(b[i])

RECURSIVE SumVals(_)
SumVals(rows) == IF rows = <<>> THEN 0 ELSE Head(rows)[1] + SumVals(Tail(rows))

\* df.groupby(cols).sum().reset_index(): one row per distinct group key, in
\* sorted key order, Count summed over the rows of the group; rows are
\* <<Count, key columns...>>
GroupKey(row) == SubSeq(row, 2, Len(row))
GroupCount_First(rows, g) ==
    Head(SelectSeq(rows, LAMBDA r : GroupKey(r) = g))[1]
GroupCount(rows, g) == SumVals(SelectSeq(rows, LAMBDA r : GroupKey(r) = g))
groupby_sum(rows) ==
    LET groups == {GroupKey(rows[i]) : i \in 1..Len(rows)}
        nth(p) == CHOOSE g \in groups :
                      Cardinality({h \in groups : LexLess(h, g)}) = p - 1
    IN  [p \in 1..Cardinality(groups) |-> <<GroupCount(rows, nth(p))>> \o nth(p)]

\* _create_status_code_dataframe 289-298: columns Count, Client IP, Request,
\* ELB Status Code, Backend Status Code
create_status_code_dataframe(status_code_counts, tie) ==
    LET df == [i \in 1..Len(status_code_counts) |->
                  LET key == status_code_counts[i].key
                  IN  <<status_code_counts[i].val, key[2], key[4], key[5], key[6]>>]
    IN  sort_values(groupby_sum(df), 1, FALSE, tie)

\* _create_3xx_status_code_dataframe 300-310: the same with Redirect URL
create_3xx_status_code_dataframe(status_3xx_code_counts, tie) ==
    LET df == [i \in 1..Len(status_3xx_code_counts) |->
                  LET key == status_3xx_code_counts[i].key
                  IN  <<status_3xx_code_counts[i].val, key[2], key[4], key[5],
                        key[6], key[7]>>]
    IN  sort_values(groupby_sum(df), 1, FALSE, tie)

\* dt.strftime('%Y-%m-%d %H:%M:%S') of a stored timestamp (316, 329); the
\* instants of the model are whole units, so no two of them format alike
strftime(t) == "2024-01-01 00:00:00 + " \o ToString(t)
TimestampFormatted(rows, col) ==
    [i \in 1..Len(rows) |-> [rows[i] EXCEPT ![col] = strftime(@)]]

\* _create_timestamp_dataframe 312-318: one row per key of the dict, sorted
\* by the stored timestamp, which is formatted afterwards
create_timestamp_dataframe(status_code_counts, tie) ==
    LET df == [i \in 1..Len(status_code_counts) |-> status_code_counts[i].key]
    IN  TimestampFormatted(sort_values(df, 1, TRUE, tie), 1)

\* _create_long_response_times_dataframe 320-330: one row per appended
\* record, sorted by Response time descending, the first 100 kept
create_long_response_times_dataframe_Unsorted(long_response_times, tie) ==
    LET df == [i \in 1..Len(long_response_times) |->
                  LET log == long_response_times[i]
                  IN  <<log.response_time, log.timestamp, log.client_ip,
                        log.target_ip, log.request, log.elb_status_code,
                        log.target_status_code>>]
    IN  SubSeq(TimestampFormatted(df, 2), 1, Min(TopN, Len(df)))
create_long_response_times_dataframe(long_response_times, tie) ==
    LET df == [i \in 1..Len(long_response_times) |->
                  LET log == long_response_times[i]
                  IN  <<log.response_time, log.timestamp, log.client_ip,
                        log.target_ip, log.request, log.elb_status_code,
                        log.target_status_code>>]
        sorted == TimestampFormatted(sort_values(df, 1, FALSE, tie), 2)
    IN  SubSeq(sorted, 1, Min(TopN, Len(sorted)))

\* _create_top_client_ips_dataframe 332-335: columns Count, Client IP, Abuse
AbuseFlag(ip, abuse_ip_set) == IF ip \in abuse_ip_set THEN "Yes" ELSE "No"
create_top_client_ips_dataframe(top_client_ips, abuse_ip_set) ==
    [i \in 1..Len(top_client_ips) |->
        <<top_client_ips[i].val, top_client_ips[i].key,
          AbuseFlag(top_client_ips[i].key, abuse_ip_set)>>]

\* _create_top_request_url_dataframe 337-339 and
\* _create_top_user_agents_dataframe 341-343: columns Count, value
create_top_request_url_dataframe(top_request_urls) ==
    [i \in 1..Len(top_request_urls) |->
        <<top_request_urls[i].val, top_request_urls[i].key>>]
create_top_user_agents_dataframe(top_user_agents) ==
    [i \in 1..Len(top_user_agents) |->
        <<top_user_agents[i].val, top_user_agents[i].key>>]

\* the names of the result tables, in the order save_to_excel writes them
ordered_sheet_names ==
    <<"Top 100 Client IP", "Top 100 Request URL", "Top 100 User Agents",
      "Top 100 Response Time", "ELB 2xx Count", "ELB 3xx Count", "ELB 4xx Count",
      "ELB 4xx Timestamp", "ELB 5xx Count", "ELB 5xx Timestamp",
      "Backend 4xx Count", "Backend 4xx Timestamp", "Backend 5xx Count",
      "Backend 5xx Timestamp">>
SheetNames == {ordered_sheet_names[i] : i \in DOMAIN ordered_sheet_names}

\* analyze_logs 235-256 after the loop: the dict of the fourteen tables
ResultTables(b, client_ip_counter, request_url_counter, user_agent_counter, abuse_ip_set, tie) ==
    LET top_client_ips == most_common(client_ip_counter, TopN)
        top_user_agents == most_common(user_agent_counter, TopN)
        top_request_urls == most_common(request_url_counter, TopN)
    IN  [name \in SheetNames |->
          CASE name = "Top 100 Client IP" ->
                   create_top_client_ips_dataframe(top_client_ips, abuse_ip_set)
            [] name = "Top 100 Request URL" ->
                   create_top_request_url_dataframe(top_request_urls)
            [] name = "Top 100 User Agents" ->
                   create_top_user_agents_dataframe(top_user_agents)
            [] name = "Top 100 Response Time" ->
                   create_long_response_times_dataframe(b.long_response_times, tie)
            [] name = "ELB 2xx Count" ->
                   create_status_code_dataframe(b.elb_2xx_counts, tie)
            [] name = "ELB 3xx Count" ->
                   create_3xx_status_code_dataframe(b.elb_3xx_counts, tie)
            [] name = "ELB 4xx Count" ->
                   create_status_code_dataframe(b.elb_4xx_counts, tie)
            [] name = "ELB 4xx Timestamp" ->
                   create_timestamp_dataframe(b.elb_4xx_counts, tie)
            [] name = "ELB 5xx Count" ->
                   create_status_code_dataframe(b.elb_5xx_counts, tie)
            [] name = "ELB 5xx Timestamp" ->
                   create_timestamp_dataframe(b.elb_5xx_counts, tie)
            [] name = "Backend 4xx Count" ->
                   create_status_code_dataframe(b.target_4xx_counts, tie)
            [] name = "Backend 4xx Timestamp" ->
                   create_timestamp_dataframe(b.target_4xx_counts, tie)
            [] name = "Backend 5xx Count" ->
                   create_status_code_dataframe(b.target_5xx_counts, tie)
            [] OTHER ->
                   create_timestamp_dataframe(b.target_5xx_counts, tie)]

\* analyze_logs as a function of its argument, of what download_abuseipdb
\* returned and of the sort's treatment of equal keys
AnalyzeLogs(logs, abuse_ip_set, tie) ==
    ResultTables(Categorized(logs),
                 Counted(logs, "client_ip"),
                 Counted(logs, "request"),
                 Counted(logs, "user_agent"),
                 abuse_ip_set, tie)

\* ------------------------------------------------------------ reputation
\* what requests.get returns: a status and the lines of the body
AbuseLists == {{}, {"5.6.7.8"}}
Responses ==
    {[status |-> 200, lines |-> l] : l \in AbuseLists}
    \cup {[status |-> 503, lines |-> {}]}

\* download_abuseipdb: raise_for_status raises for a 4xx or 5xx response,
\* otherwise the set of the body's lines is returned
download_abuseipdb(response) ==
    IF response.status >= 400
    THEN [kind |-> "raise", set |-> {}]
    ELSE [kind |-> "return", set |-> response.lines]

\* ----------------------------------------------------------------- sheets
\* save_to_excel 357; xlsxwriter's worksheets have as many rows
max_rows_per_sheet == 1048576

\* DataFrame.to_excel(header=False, startrow=1) of the table's rows lo..hi:
\* row j of the chunk goes to sheet row startrow + j (from 0), and the
\* writer drops a cell whose row is not below the sheet's row count
to_excel(lo, hi, startrow) ==
    [first |-> lo, last |-> Min(hi, lo + (max_rows_per_sheet - 1) - startrow)]

\* create_sheet 379-395: the sheets written for a table of total_rows rows,
\* each with its title, the number of rows of the chunk create_sheet puts
\* below the header (current_df.shape[0]) and the table rows first..last
\* the written sheet holds; the names of the tables are shorter than 25
\* characters, so no title is cut
create_sheet(sheet_name, total_rows) ==
    LET num_sheets == (total_rows \div max_rows_per_sheet) + 1
        sheet(sheet_index) ==
            LET sheet_suffix == IF sheet_index > 0
                                THEN "_" \o ToString(sheet_index + 1) ELSE ""
                lo == sheet_index * max_rows_per_sheet + 1
                hi == Min((sheet_index + 1) * max_rows_per_sheet, total_rows)
                written == to_excel(lo, hi, 1)
            IN  [table |-> sheet_name, title |-> sheet_name \o sheet_suffix,
                 empty |-> hi < lo, data_rows |-> (hi - lo) + 1,
                 first |-> written.first, last |-> written.last]
        all == [k \in 1..num_sheets |-> sheet(k - 1)]
    IN  SelectSeq(all, LAMBDA sh : ~sh.empty)

\* ------------------------------------------------------------------ state
VARIABLES
    pc,                 \* position of main.process_logs
    exc,                \* the exception propagating to process_logs' handlers
    timezone,           \* process_logs argument: the zone, as its UTC offset
    start_arg,          \* process_logs argument start_datetime (naive)
    end_arg,            \* process_logs argument end_datetime (naive)
    clock,              \* the instant datetime.now reads
    max_workers,        \* threads of a ThreadPoolExecutor(max_workers=None)
    retries,            \* main's local: the token refreshes so far
    analyzer,           \* <<>> or <<the ELBLogAnalyzer's datetime attributes>>
    listed,             \* the objects the paginator has yielded so far
    pages_seen,         \* number of pages the paginator has yielded
    files_to_download,  \* download_logs' local list of selected keys
    gz_directory,       \* process_logs local: TRUE once bound
    log_directory,      \* process_logs local: TRUE once bound
    gzDir,              \* ./data/log: names of the staged .gz files
    logDir,             \* ./data/parsed: name -> lines of the .log file
    dl,                 \* download pool: key -> state of its future
    dc,                 \* decompress pool: name -> state of its future
    ps,                 \* parse pool: name -> state of its future
    parsed_logs,        \* parse_logs' local list of records
    analysis_data,      \* process_logs local: TRUE once analyze_logs returned
    report_saved,       \* TRUE once save_to_excel wrote the workbook
    buckets,            \* analyze_logs locals: the status dicts and slow list
    fetch,              \* what the call of download_abuseipdb did
    abuse_ip_set,       \* analyze_logs local: <<>> or <<the returned set>>
    tables,             \* the dict analyze_logs returned (analysis_data)
    workbook,           \* the sheets written so far, in order
    success_logged,     \* TRUE once save_to_excel logged "Report saved successfully"
    explorer_opened,    \* TRUE once save_to_excel called open_file_explorer
    sheet_name,         \* argument of a call of create_sheet
    total_rows,         \* df.shape[0] of that call's table
    line,               \* the argument of a call of _parse_log_line
    entry               \* what that call returned or raised

vars == <<pc, exc, timezone, start_arg, end_arg, clock, max_workers, retries, analyzer, listed,
          pages_seen, files_to_download, gz_directory, log_directory, gzDir,
          logDir, dl, dc, ps, parsed_logs, analysis_data, report_saved,
          buckets, fetch, abuse_ip_set, tables, workbook, success_logged,
          explorer_opened, sheet_name, total_rows, line, entry>>

lineVars == <<line, entry>>
anVars == <<buckets, fetch, abuse_ip_set, tables>>
sheetVars == <<sheet_name, total_rows>>
saveVars == <<success_logged, explorer_opened>>
reportVars == <<anVars, workbook, saveVars, sheetVars>>
argVars == <<timezone, start_arg, end_arg, clock, max_workers, retries>>
poolVars == <<dl, dc, ps>>
dirVars == <<gzDir, logDir>>
localVars == <<gz_directory, log_directory>>
resultVars == <<parsed_logs, analysis_data, report_saved>>
listVars == <<listed, pages_seen, files_to_download>>

\* states of a future: not submitted, waiting for a worker thread, running,
\* returned normally, returned after the worker caught and logged its error,
\* finished with an exception stored in the future, and that exception
\* caught and logged by the thread that called result()
Active == {"queued", "running"}
Finished == {"ok", "caught", "raised", "logged"}

Range(f) == {f[i] : i \in DOMAIN f}
SeqsUpTo(S, n) == UNION {[1..m -> S] : m \in 0..n}
Injective(f) == \A i, j \in DOMAIN f : f[i] = f[j] => i = j

\* an entry of a page's Contents as boto3 returns it: LastModified is UTC
Objects == [Key : Keys, LastModified : [utc : Times, off : {0}]]
ListedKeys == {o.Key : o \in listed}

\* the lines the staged files of a run are made of
GoodLine ==
    [grammar |-> TRUE, timestamp |-> "2024-01-01T00:00:00.000000Z",
     client_ip |-> "1.2.3.4:5000", target_ip |-> "10.0.0.1:80",
     request_processing_time |-> "0.5", target_processing_time |-> "1.0",
     response_processing_time |-> "-", elb_status_code |-> "200",
     target_status_code |-> "200", request |-> "GET /a HTTP/1.1",
     user_agent |-> "curl/8.0", redirect_url |-> "-", conn_trace_id |-> "TID_1"]
BadTimestampLine == [GoodLine EXCEPT !.timestamp = "2024-01-01T00:00:00Z"]
DashAgentLine == [GoodLine EXCEPT !.user_agent = "-"]
FileLines == {GoodLine, BadTimestampLine, DashAgentLine}
FileContents == SeqsUpTo(FileLines, MaxLines)

\* ------------------------------------------------------------------ Init
EmptyTables == [name \in SheetNames |-> <<>>]
NotAnalyzed ==
    /\ buckets = EmptyBuckets
    /\ fetch = "none"
    /\ abuse_ip_set = <<>>
    /\ tables = EmptyTables

InitLeft(Zones, Starts, Ends, Clocks, InLines, Pools, GzLeft, LogLeft) ==
    /\ line \in InLines
    /\ max_workers \in Pools
    /\ retries = 0
    /\ pc = "start"
    /\ exc = "none"
    /\ timezone \in Zones
    /\ start_arg \in Starts
    /\ end_arg \in Ends
    /\ clock \in Clocks
    /\ analyzer = <<>>
    /\ listed = {}
    /\ pages_seen = 0
    /\ files_to_download = <<>>
    /\ gz_directory = FALSE
    /\ log_directory = FALSE
    /\ gzDir \in GzLeft
    /\ logDir \in LogLeft
    /\ dl = [k \in Keys |-> "idle"]
    /\ dc = [b \in Bases |-> "idle"]
    /\ ps = [b \in Bases |-> "idle"]
    /\ parsed_logs = <<>>
    /\ analysis_data = FALSE
    /\ report_saved = FALSE
    /\ NotAnalyzed
    /\ workbook = <<>>
    /\ success_logged = FALSE
    /\ explorer_opened = FALSE
    /\ sheet_name = ordered_sheet_names[1]
    /\ total_rows = 0
    /\ entry = [kind |-> "idle"]

\* the first run: ./data/log and ./data/parsed do not exist or are empty
InitWith(Zones, Starts, Ends, Clocks, InLines, Pools) ==
    InitLeft(Zones, Starts, Ends, Clocks, InLines, Pools, {{}}, {<<>>})

\* the machine's pool size is the same whatever the run lists
InitOver(Zones, Starts, Ends, Clocks, InLines) ==
    InitWith(Zones, Starts, Ends, Clocks, InLines, {MaxWorkers})

\* ------------------------------------------------- process_logs: selection
\* main.py 138-141: the analyzer is constructed from the formatted arguments
Construct ==
    /\ pc = "start"
    /\ analyzer' = <<ELBLogAnalyzer_init(start_arg, {end_arg}, timezone, clock)>>
    /\ pc' = "download_logs"
    /\ UNCHANGED <<exc, argVars, lineVars, reportVars, listVars, localVars, dirVars, poolVars, resultVars>>

\* utils.clean_directory 14-28: every entry of the directory is unlinked;
\* nothing is the empty directory of the same kind
clean_directory_Keeps(directory, nothing) == directory
clean_directory(directory, nothing) == nothing

\* download_logs 37-40: create and empty ./data/log, start the listing
download_logs_begin ==
    /\ pc = "download_logs"
    /\ gzDir' = clean_directory(gzDir, {})
    /\ files_to_download' = <<>>
    /\ listed' = {}
    /\ pages_seen' = 0
    /\ pc' = "list"
    /\ UNCHANGED <<exc, argVars, lineVars, reportVars, analyzer, localVars, logDir, poolVars, resultVars>>

\* download_logs 43-52: one page of the paginator.  A page without
\* 'Contents' (contents = <<>>) is skipped with a warning.
ListPage ==
    /\ pc = "list"
    /\ pages_seen < MaxPages
    /\ \E contents \in SeqsUpTo(Objects, MaxObjects - Cardinality(listed)) :
          /\ Injective([i \in DOMAIN contents |-> contents[i].Key])
          /\ \A i \in DOMAIN contents : contents[i].Key \notin ListedKeys
          /\ listed' = listed \cup Range(contents)
          /\ files_to_download' =
                files_to_download \o SelectFromPage(analyzer[1], contents)
    /\ pages_seen' = pages_seen + 1
    /\ UNCHANGED <<pc, exc, argVars, lineVars, reportVars, analyzer, localVars, dirVars, poolVars, resultVars>>

\* the paginator raises while listing: an expired token or another client
\* error of list_objects_v2, a missing region, or a transport error
ListRaise ==
    /\ pc = "list"
    /\ \E e \in {"ExpiredToken", "ClientError", "NoRegionError", "Exception"} :
          exc' = e
    /\ pc' = "except"
    /\ listed' = {}
    /\ UNCHANGED <<argVars, lineVars, reportVars, analyzer, pages_seen, files_to_download, localVars,
                   dirVars, poolVars, resultVars>>

\* ------------------------------------------------------------ worker pools
\* ThreadPoolExecutor: a queued unit starts when a worker thread is free;
\* the executor never has more than max_workers threads (60, 92, 115)
Running(pool) == {u \in DOMAIN pool : pool[u] = "running"}
WorkerFree_Unbounded(pool) == TRUE
WorkerFree(pool) == Cardinality(Running(pool)) < max_workers

\* leaving the 'with ThreadPoolExecutor' block after the result loop: every
\* future has been waited for (as_completed / list(map) and shutdown(wait=True))
StageJoined_NoWait(pool) == TRUE
StageJoined(pool) == \A u \in DOMAIN pool : pool[u] \notin Active

\* the try/except inside the worker function of a stage:
\* _download_log_file catches ClientError (76-84), _decompress_log_file
\* catches Exception (104-109), _parse_log_file catches nothing (126-134)
WorkerCatches_DecompressNothing(stage, err) ==
    stage = "download" /\ err = "ClientError"
WorkerCatches(stage, err) ==
    CASE stage = "download" -> err = "ClientError"
      [] stage = "decompress" -> TRUE
      [] OTHER -> FALSE

\* the try/except around future.result() in the thread that collects:
\* download_logs has one (67-70), decompress_logs and parse_logs have none
ResultCatches_Nothing(stage) == FALSE
ResultCatches(stage) == stage = "download"

AnyRaised(pool) == \E u \in DOMAIN pool : pool[u] = "raised"
LogRaised(pool) == [u \in DOMAIN pool |-> IF pool[u] = "raised" THEN "logged" ELSE pool[u]]

\* download_logs 54-62: no key selected -> return; else submit one future per key
ListDone ==
    /\ pc = "list"
    /\ pages_seen >= 1
    /\ listed' = {}
    /\ IF Len(files_to_download) = 0
       THEN /\ gz_directory' = TRUE
            /\ pc' = "downloaded"
            /\ dl' = dl
       ELSE /\ dl' = [k \in Keys |-> IF k \in Range(files_to_download)
                                     THEN "queued" ELSE "idle"]
            /\ pc' = "download"
            /\ gz_directory' = gz_directory
    /\ UNCHANGED <<exc, argVars, lineVars, reportVars, analyzer, pages_seen, files_to_download,
                   log_directory, dirVars, dc, ps, resultVars>>

DownloadStart(k) ==
    /\ dl[k] = "queued"
    /\ WorkerFree(dl)
    /\ dl' = [dl EXCEPT ![k] = "running"]
    /\ UNCHANGED <<pc, exc, argVars, lineVars, reportVars, analyzer, listVars, localVars, dirVars,
                   dc, ps, resultVars>>

\* _download_log_file 74-84: download_file writes ./data/log/<basename>, or
\* raises ClientError (caught and logged here) or another exception
DownloadFinish(k) ==
    /\ dl[k] = "running"
    /\ \/ /\ gzDir' = gzDir \cup {Basename(k)}
          /\ dl' = [dl EXCEPT ![k] = "ok"]
       \/ /\ \E err \in {"ClientError", "Exception"} :
                dl' = [dl EXCEPT ![k] = IF WorkerCatches("download", err)
                                        THEN "caught" ELSE "raised"]
          /\ gzDir' = gzDir
    /\ UNCHANGED <<pc, exc, argVars, lineVars, reportVars, analyzer, listVars, localVars, logDir,
                   dc, ps, resultVars>>

\* download_logs 63-72: the result loop logs the exception of a future and
\* goes on; the function returns the directory when the pool is drained
download_logs_exit ==
    /\ pc = "download"
    /\ StageJoined(dl)
    /\ IF AnyRaised(dl) /\ ~ResultCatches("download")
       THEN /\ exc' = "Exception"
            /\ pc' = "except"
            /\ UNCHANGED <<dl, gz_directory>>
       ELSE /\ dl' = LogRaised(dl)
            /\ gz_directory' = TRUE
            /\ pc' = "downloaded"
            /\ exc' = exc
    /\ UNCHANGED <<argVars, lineVars, reportVars, analyzer, listVars, log_directory, dirVars, dc, ps,
                   resultVars>>

\* decompress_logs 87-93: create and empty ./data/parsed, list the .gz files
\* of the staging directory and map the worker over them
decompress_logs_begin ==
    /\ pc = "downloaded"
    /\ logDir' = clean_directory(logDir, <<>>)
    /\ dc' = [b \in Bases |-> IF b \in gzDir THEN "queued" ELSE "idle"]
    /\ pc' = "decompress"
    /\ UNCHANGED <<exc, argVars, lineVars, reportVars, analyzer, listVars, localVars, gzDir, dl, ps,
                   resultVars>>

\* utils.create_directory 8-11 has no handler: os.makedirs('./data/parsed')
\* raising OSError (disk full, read-only file system) leaves decompress_logs
decompress_logs_raise ==
    /\ pc = "downloaded"
    /\ exc' = "Exception"
    /\ pc' = "except"
    /\ UNCHANGED <<argVars, lineVars, reportVars, analyzer, listVars, localVars, dirVars, poolVars,
                   resultVars>>

DecompressStart(b) ==
    /\ dc[b] = "queued"
    /\ WorkerFree(dc)
    /\ dc' = [dc EXCEPT ![b] = "running"]
    /\ UNCHANGED <<pc, exc, argVars, lineVars, reportVars, analyzer, listVars, localVars, dirVars,
                   dl, ps, resultVars>>

\* the file <name>.log written by one worker
WriteLog(dir, b, lines) ==
    [x \in DOMAIN dir \cup {b} |-> IF x = b THEN lines ELSE dir[x]]

\* _decompress_log_file 101-109: the output file is opened for writing and
\* filled; a failure (corrupt archive, I/O error) is caught and logged and
\* leaves whatever was written so far
DecompressFinish(b) ==
    /\ dc[b] = "running"
    /\ \E lines \in FileContents :
          /\ logDir' = WriteLog(logDir, b, lines)
          /\ \/ dc' = [dc EXCEPT ![b] = "ok"]
             \/ dc' = [dc EXCEPT ![b] = IF WorkerCatches("decompress", "Exception")
                                        THEN "caught" ELSE "raised"]
    /\ UNCHANGED <<pc, exc, argVars, lineVars, reportVars, analyzer, listVars, localVars, gzDir,
                   dl, ps, resultVars>>

\* decompress_logs 93-99: list(executor.map(...)) re-raises the exception of
\* a future; otherwise the directory is returned
decompress_logs_exit ==
    /\ pc = "decompress"
    /\ StageJoined(dc)
    /\ IF AnyRaised(dc) /\ ~ResultCatches("decompress")
       THEN /\ exc' = "Exception"
            /\ pc' = "except"
            /\ UNCHANGED <<dc, log_directory>>
       ELSE /\ dc' = LogRaised(dc)
            /\ log_directory' = TRUE
            /\ pc' = "decompressed"
            /\ exc' = exc
    /\ UNCHANGED <<argVars, lineVars, reportVars, analyzer, listVars, gz_directory, dirVars, dl, ps,
                   resultVars>>

\* parse_logs 112-116: one future per .log file of the directory
parse_logs_begin ==
    /\ pc = "decompressed"
    /\ parsed_logs' = <<>>
    /\ ps' = [b \in Bases |-> IF b \in DOMAIN logDir THEN "queued" ELSE "idle"]
    /\ pc' = "parse"
    /\ UNCHANGED <<exc, argVars, lineVars, reportVars, analyzer, listVars, localVars, dirVars, dl, dc,
                   analysis_data, report_saved>>

\* parse_logs 121: parsed_logs.extend(future.result())
extend_Replacing(list, result) == result
extend(list, result) == list \o result

ParseStart(b) ==
    /\ ps[b] = "queued"
    /\ WorkerFree(ps)
    /\ ps' = [ps EXCEPT ![b] = "running"]
    /\ UNCHANGED <<pc, exc, argVars, lineVars, reportVars, analyzer, listVars, localVars, dirVars,
                   dl, dc, resultVars>>

\* _parse_log_file 126-134 run by a worker, and parse_logs 117-121: the
\* collecting thread extends parsed_logs with each result in completion
\* order, until a result() raises
ParseFinish(b) ==
    /\ ps[b] = "running"
    /\ LET r == parse_log_file(logDir[b], timezone)
       IN  IF r.kind = "ok" \/ WorkerCatches("parse", "Exception")
           THEN /\ ps' = [ps EXCEPT ![b] = IF r.kind = "ok" THEN "ok" ELSE "caught"]
                /\ parsed_logs' = IF pc = "parse" /\ ~AnyRaised(ps)
                                  THEN extend(parsed_logs, r.logs) ELSE parsed_logs
           ELSE /\ ps' = [ps EXCEPT ![b] = "raised"]
                /\ parsed_logs' = parsed_logs
    /\ UNCHANGED <<pc, exc, argVars, lineVars, reportVars, analyzer, listVars, localVars, dirVars,
                   dl, dc, analysis_data, report_saved>>

\* main.py 147: 'if parsed_logs:'
AnalyzesRecords_Always(logs) == TRUE
AnalyzesRecords(logs) == logs # <<>>

\* parse_logs 121-124 and main.py 146-147: the exception of a future leaves
\* parse_logs once the pool has shut down; otherwise the records are
\* returned and process_logs analyzes them if there are any
parse_logs_exit ==
    /\ pc = "parse"
    /\ StageJoined(ps)
    /\ IF AnyRaised(ps) /\ ~ResultCatches("parse")
       THEN /\ exc' = "Exception"
            /\ pc' = "except"
            /\ ps' = ps
       ELSE /\ ps' = LogRaised(ps)
            /\ pc' = IF AnalyzesRecords(parsed_logs) THEN "analyze" ELSE "clean_up"
            /\ exc' = exc
    /\ UNCHANGED <<argVars, lineVars, reportVars, analyzer, listVars, localVars, dirVars, dl, dc,
                   resultVars>>

\* main.py 148, analyze_logs 216-256: the loop fills the dicts, the
\* reputation list is fetched (236, with no try around it) and the tables
\* are returned; an exception of the fetch leaves analyze_logs
analyze_logs ==
    /\ pc = "analyze"
    /\ buckets' = Categorized(parsed_logs)
    /\ \E response \in Responses :
         LET got == download_abuseipdb(response)
         IN  IF got.kind = "return"
             THEN /\ fetch' = "ok"
                  /\ abuse_ip_set' = <<got.set>>
                  /\ \E tie \in TieOrders :
                       tables' = AnalyzeLogs(parsed_logs, got.set, tie)
                  /\ analysis_data' = TRUE
                  /\ pc' = "save"
                  /\ exc' = exc
             ELSE /\ fetch' = "failed"
                  /\ exc' = "Exception"
                  /\ pc' = "except"
                  /\ UNCHANGED <<abuse_ip_set, tables, analysis_data>>
    /\ UNCHANGED <<argVars, lineVars, workbook, saveVars, sheetVars, analyzer, listVars,
                   localVars, dirVars, poolVars, parsed_logs, report_saved>>

RECURSIVE SheetsOf(_, _)
\* save_to_excel 446-449: create_sheet for every table, in display order
SheetsOf(names, data) ==
    IF names = <<>> THEN <<>>
    ELSE create_sheet(Head(names), Len(data[Head(names)]))
         \o SheetsOf(Tail(names), data)

\* the writer's 'with' block 360-449: every sheet written, or an exception
\* after some of them (ExcelWriter.__exit__ closes the file either way)
WriterOutcomes(full) ==
    {[failed |-> FALSE, sheets |-> full]}
    \cup {[failed |-> TRUE, sheets |-> SubSeq(full, 1, n)] :
             n \in {m \in 0..Len(full) : m < Len(full) \/ m = 0}}

\* save_to_excel 451-457: 'except Exception as e: logger.error; raise e',
\* then the success message and open_file_explorer
after_writer_Swallowed(failed) ==
    [raises |-> FALSE, success_logged |-> TRUE, explorer_opened |-> TRUE]
after_writer(failed) ==
    [raises |-> failed, success_logged |-> ~failed, explorer_opened |-> ~failed]

\* main.py 149, save_to_excel 358-360 and 446-457: the sheets of the
\* workbook are written, or the writer's exception is logged and raised again
save_to_excel ==
    /\ pc = "save"
    /\ \E w \in WriterOutcomes(SheetsOf(ordered_sheet_names, tables)) :
         LET after == after_writer(w.failed)
         IN  /\ workbook' = w.sheets
             /\ success_logged' = after.success_logged
             /\ explorer_opened' = after.explorer_opened
             /\ report_saved' = ~w.failed
             /\ IF after.raises
                THEN exc' = "Exception" /\ pc' = "except"
                ELSE exc' = exc /\ pc' = "clean_up"
    /\ UNCHANGED <<argVars, lineVars, anVars, sheetVars, analyzer, listVars,
                   localVars, dirVars, poolVars, parsed_logs, analysis_data>>

\* main.py 150, clean_up 470-472, utils.clean_directory 14-28
clean_up ==
    /\ pc = "clean_up"
    /\ gzDir' = clean_directory(gzDir, {})
    /\ logDir' = clean_directory(logDir, <<>>)
    /\ pc' = "returned"
    /\ UNCHANGED <<exc, argVars, lineVars, reportVars, analyzer, listVars, localVars, poolVars,
                   resultVars>>

\* main.py 160-163: evaluating [gz_directory, log_directory] raises
\* NameError unless both locals (and analyzer) are bound
HandlerCleans == analyzer # <<>> /\ gz_directory /\ log_directory

\* main.py 151-163: the handlers of process_logs.  ClientError and
\* NoRegionError are logged; any other exception is logged and followed by
\* clean_up, whose NameError is swallowed
process_logs_except ==
    /\ pc = "except"
    /\ IF exc = "Exception" /\ HandlerCleans
       THEN gzDir' = clean_directory(gzDir, {}) /\ logDir' = clean_directory(logDir, <<>>)
       ELSE UNCHANGED dirVars
    /\ pc' = "returned"
    /\ UNCHANGED <<exc, argVars, lineVars, reportVars, analyzer, listVars, localVars, poolVars,
                   resultVars>>

\* ------------------------------------------------------- specifications
Init == InitOver({0}, {1}, {2}, {3}, {GoodLine})

Next ==
    \/ Construct
    \/ download_logs_begin
    \/ ListPage
    \/ ListRaise
    \/ ListDone
    \/ \E k \in Keys : DownloadStart(k)
    \/ \E k \in Keys : DownloadFinish(k)
    \/ download_logs_exit
    \/ decompress_logs_begin
    \/ decompress_logs_raise
    \/ \E b \in Bases : DecompressStart(b)
    \/ \E b \in Bases : DecompressFinish(b)
    \/ decompress_logs_exit
    \/ parse_logs_begin
    \/ \E b \in Bases : ParseStart(b)
    \/ \E b \in Bases : ParseFinish(b)
    \/ parse_logs_exit
    \/ analyze_logs
    \/ save_to_excel
    \/ clean_up
    \/ process_logs_except

Spec == Init /\ [][Next]_vars

\* the selection alone, over every zone, window and clock
InitSelect == InitOver(TzOffsets, Times, Times, Times, {GoodLine})
NextSelect == Construct \/ download_logs_begin \/ ListPage
SpecSelect == InitSelect /\ [][NextSelect]_vars

\* main.py 129: the default of --end, datetime.now(pytz.utc) formatted with
\* '%Y-%m-%d %H:%M': the wall clock of UTC at the invocation, without zone
parse_args_end(clk) == NaiveWall(NowIn(clk, 0))

\* the constructor and the listing when --end is omitted
InitDefaultEnd == InitSelect /\ end_arg = parse_args_end(clock)
SpecDefaultEnd == InitDefaultEnd /\ [][NextSelect]_vars

\* parse_logs alone, on a decompressed directory whose files hold lines
\* that give different records
OtherLine == [GoodLine EXCEPT !.request = "GET /b HTTP/1.1"]
ParseContents == SeqsUpTo({GoodLine, OtherLine, DashAgentLine}, MaxLines)
InitParse ==
    /\ logDir \in [Bases -> ParseContents]
    /\ pc = "decompressed"
    /\ exc = "none"
    /\ timezone = 0
    /\ start_arg = 1
    /\ end_arg = 2
    /\ clock = 3
    /\ max_workers = MaxWorkers
    /\ retries = 0
    /\ analyzer = <<ELBLogAnalyzer_init(1, {2}, 0, 3)>>
    /\ listed = {}
    /\ pages_seen = 1
    /\ files_to_download = [i \in 1..MaxBases |-> <<1, i>>]
    /\ gz_directory = TRUE
    /\ log_directory = TRUE
    /\ gzDir = Bases
    /\ dl = [k \in Keys |-> IF k[1] = 1 THEN "ok" ELSE "idle"]
    /\ dc = [b \in Bases |-> "ok"]
    /\ ps = [b \in Bases |-> "idle"]
    /\ parsed_logs = <<>>
    /\ analysis_data = FALSE
    /\ report_saved = FALSE
    /\ NotAnalyzed
    /\ workbook = <<>>
    /\ success_logged = FALSE
    /\ explorer_opened = FALSE
    /\ sheet_name = ordered_sheet_names[1]
    /\ total_rows = 0
    /\ line = GoodLine
    /\ entry = [kind |-> "idle"]
NextParse ==
    \/ parse_logs_begin
    \/ \E b \in Bases : ParseStart(b)
    \/ \E b \in Bases : ParseFinish(b)
    \/ parse_logs_exit
SpecParse == InitParse /\ [][NextParse]_vars

\* ------------------------------------------------------------------ main
\* main.py 20
MAX_RETRIES == 3

\* main.py 151-163: the exception that leaves process_logs.  Each of the
\* three except clauses logs and falls through, none raises again
Escapes(e) ==
    IF e \in {"none", "ExpiredToken", "ClientError", "NoRegionError", "Exception"}
    THEN "none" ELSE e

\* main.py 237-253: the loop around process_logs, from the return of
\* process_logs to the next call or to the end of main.  'break' follows a
\* normal return; the ExpiredToken clause counts, refreshes the token and
\* lets the while condition decide; every other exception breaks
main_loop ==
    /\ pc = "returned"
    /\ IF Escapes(exc) = "ExpiredToken"
       THEN /\ retries' = retries + 1
            /\ pc' = IF retries + 1 < MAX_RETRIES THEN "start" ELSE "exited"
            /\ exc' = "none"
            /\ analyzer' = <<>>
            /\ gz_directory' = FALSE
            /\ log_directory' = FALSE
       ELSE /\ pc' = "exited"
            /\ UNCHANGED <<retries, exc, analyzer, localVars>>
    /\ UNCHANGED <<timezone, start_arg, end_arg, clock, max_workers, lineVars, reportVars,
                   listVars, dirVars, poolVars, resultVars>>

NextMain == Next \/ main_loop
SpecMain == Init /\ [][NextMain]_vars

\* the pipeline on a machine whose pools are smaller than the batch
InitPool == InitWith({0}, {1}, {2}, {3}, {GoodLine}, 1..(MaxWorkers - 1))
SpecPool == InitPool /\ [][Next]_vars

\* a run that follows an interrupted one: files of the earlier run are still
\* in ./data/log and ./data/parsed
StaleLine == [GoodLine EXCEPT !.conn_trace_id = "TID_0"]
LeftGz == SUBSET Bases
LeftLogs == UNION {[D -> {<<StaleLine>>}] : D \in SUBSET Bases}
InitRerun == InitLeft({0}, {1}, {2}, {3}, {GoodLine}, {MaxWorkers}, LeftGz, LeftLogs)
SpecRerun == InitRerun /\ [][Next]_vars

\* _parse_log_line alone, on every line and zone
ParseLine ==
    /\ entry.kind = "idle"
    /\ entry' = parse_log_line(line, timezone)
    /\ UNCHANGED <<pc, exc, argVars, line, reportVars, analyzer, listVars, localVars,
                   dirVars, poolVars, resultVars>>

InitLine == InitOver(TzOffsets, {1}, {2}, {3}, Lines)
NextLine == ParseLine
SpecLine == InitLine /\ [][NextLine]_vars

\* analyze_logs and what follows it, on every list of a few records that
\* differ in the fields the tables are built from
BaseRecord == parse_log_line(GoodLine, 0).rec
AnalysisRecords ==
    {BaseRecord,
     [BaseRecord EXCEPT !.timestamp = 1],
     [BaseRecord EXCEPT !.target_status_code = "503"],
     [BaseRecord EXCEPT !.elb_status_code = "404", !.target_status_code = "503"],
     [BaseRecord EXCEPT !.client_ip = "5.6.7.8", !.elb_status_code = "404",
                        !.target_status_code = "404",
                        !.target_processing_time = 0, !.response_time = 500],
     [BaseRecord EXCEPT !.client_ip = "5.6.7.8", !.elb_status_code = "502",
                        !.target_status_code = "-", !.target_ip = None],
     [BaseRecord EXCEPT !.request = "/b", !.elb_status_code = "301",
                        !.target_status_code = "-", !.target_ip = None,
                        !.redirect_url = "https://x/b", !.timestamp = 1],
     [BaseRecord EXCEPT !.client_ip = "5.6.7.8", !.elb_status_code = "101",
                        !.target_status_code = "101",
                        !.request_processing_time = 0, !.response_time = 1000]}

InitAnalyzeOver(Logs) ==
    /\ parsed_logs \in Logs
    /\ pc = "analyze"
    /\ exc = "none"
    /\ timezone = 0
    /\ start_arg = 1
    /\ end_arg = 2
    /\ clock = 3
    /\ max_workers = MaxWorkers
    /\ retries = 0
    /\ analyzer = <<ELBLogAnalyzer_init(1, {2}, 0, 3)>>
    /\ listed = {}
    /\ pages_seen = 1
    /\ files_to_download = << <<1, 1>> >>
    /\ gz_directory = TRUE
    /\ log_directory = TRUE
    /\ gzDir = {1}
    /\ logDir = [b \in {1} |-> <<GoodLine>>]
    /\ dl = [k \in Keys |-> IF k = <<1, 1>> THEN "ok" ELSE "idle"]
    /\ dc = [b \in Bases |-> IF b = 1 THEN "ok" ELSE "idle"]
    /\ ps = [b \in Bases |-> IF b = 1 THEN "ok" ELSE "idle"]
    /\ analysis_data = FALSE
    /\ report_saved = FALSE
    /\ NotAnalyzed
    /\ workbook = <<>>
    /\ success_logged = FALSE
    /\ explorer_opened = FALSE
    /\ sheet_name = ordered_sheet_names[1]
    /\ total_rows = 0
    /\ line = GoodLine
    /\ entry = [kind |-> "idle"]

InitAnalyze == InitAnalyzeOver(SeqsUpTo(AnalysisRecords, MaxRecords) \ {<<>>})
NextAnalyze == analyze_logs \/ save_to_excel \/ clean_up \/ process_logs_except
SpecAnalyze == InitAnalyze /\ [][NextAnalyze]_vars

\* analyze_logs on lists around the cut of the rankings: n records with n
\* distinct values of one field, in ascending or descending order of the
\* value, followed by a few repetitions of the first and the last value
RankFields == {"client_ip", "user_agent", "request"}
RankValue(f, id) ==
    CASE f = "client_ip" -> "10.0.0." \o ToString(100 + id)
      [] f = "user_agent" -> "agent/" \o ToString(100 + id)
      [] OTHER -> "/page/" \o ToString(100 + id)
\* durations at and over the threshold, the first value's below it or not
RankDuration(slow, id) ==
    IF slow = "some" /\ id = 1 THEN SlowThreshold - 500
    ELSE SlowThreshold + 500 * (id % 3)
RankRecord(f, slow, id) ==
    [BaseRecord EXCEPT ![f] = RankValue(f, id),
                       !.elb_status_code = "101", !.target_status_code = "-",
                       !.target_ip = None,
                       !.request_processing_time = 0,
                       !.target_processing_time = RankDuration(slow, id),
                       !.response_time = RankDuration(slow, id)]
RankLogs(f, slow, n, ascending, extra) ==
    [i \in 1..n |-> RankRecord(f, slow, IF ascending THEN i ELSE n + 1 - i)]
    \o [i \in 1..Len(extra) |-> RankRecord(f, slow, IF extra[i] = "first" THEN 1 ELSE n)]
RankInputs ==
    {RankLogs(f, slow, n, ascending, extra) :
        f \in RankFields, slow \in {"all", "some"},
        n \in (TopN - 1)..(TopN + MaxOver), ascending \in BOOLEAN,
        extra \in SeqsUpTo({"first", "last"}, MaxExtra)}

InitRank == InitAnalyzeOver(RankInputs)
SpecRank == InitRank /\ [][NextAnalyze]_vars

\* create_sheet alone, on tables whose sizes are around the multiples of
\* the rows of a sheet
CreateSheet ==
    /\ pc = "create_sheet"
    /\ workbook' = create_sheet(sheet_name, total_rows)
    /\ pc' = "sheet_written"
    /\ UNCHANGED <<exc, argVars, lineVars, anVars, saveVars, sheetVars, analyzer, listVars,
                   localVars, dirVars, poolVars, resultVars>>

TableSizes ==
    {r \in {k * max_rows_per_sheet + d : k \in 0..MaxChunks, d \in (0 - MaxSlack)..MaxSlack} :
        r >= 0}
\* the rankings and the slow table have at most 100 rows (235-238, 330);
\* the count and timestamp tables have a row per group or key
CappedNames == {ordered_sheet_names[i] : i \in 1..4}
InitSheet ==
    /\ sheet_name \in SheetNames
    /\ total_rows \in IF sheet_name \in CappedNames THEN {0, TopN} ELSE TableSizes
    /\ pc = "create_sheet"
    /\ exc = "none"
    /\ timezone = 0
    /\ start_arg = 1
    /\ end_arg = 2
    /\ clock = 3
    /\ max_workers = MaxWorkers
    /\ retries = 0
    /\ analyzer = <<ELBLogAnalyzer_init(1, {2}, 0, 3)>>
    /\ listed = {}
    /\ pages_seen = 1
    /\ files_to_download = << <<1, 1>> >>
    /\ gz_directory = TRUE
    /\ log_directory = TRUE
    /\ gzDir = {1}
    /\ logDir = [b \in {1} |-> <<GoodLine>>]
    /\ dl = [k \in Keys |-> IF k = <<1, 1>> THEN "ok" ELSE "idle"]
    /\ dc = [b \in Bases |-> IF b = 1 THEN "ok" ELSE "idle"]
    /\ ps = [b \in Bases |-> IF b = 1 THEN "ok" ELSE "idle"]
    /\ parsed_logs = <<BaseRecord>>
    /\ analysis_data = TRUE
    /\ report_saved = FALSE
    /\ NotAnalyzed
    /\ workbook = <<>>
    /\ success_logged = FALSE
    /\ explorer_opened = FALSE
    /\ line = GoodLine
    /\ entry = [kind |-> "idle"]
NextSheet == CreateSheet
SpecSheet == InitSheet /\ [][NextSheet]_vars

\* ------------------------------------------------------------ properties
SelectedKeys == Range(files_to_download)
FailedStates == {"caught", "raised", "logged"}

\* C1: while download_logs lists the bucket, the selected keys are exactly
\* the keys of the objects listed so far, on every page, whose LastModified
\* instant t satisfies start_utc <= t <= end_utc, each selected once.
C1_SelectionExact ==
    pc = "list" =>
        /\ SelectedKeys =
              {o.Key : o \in {x \in listed :
                   /\ analyzer[1].start_datetime_utc.utc <= x.LastModified.utc
                   /\ x.LastModified.utc <= analyzer[1].end_datetime_utc.utc}}
        /\ Injective(files_to_download)

\* two pages listed, one object exactly at the end of the window selected
\* and one object outside the window left out
C1_Witness ==
    /\ pc = "list"
    /\ pages_seen = 2
    /\ \E o \in listed : /\ o.LastModified.utc = analyzer[1].end_datetime_utc.utc
                         /\ o.Key \in SelectedKeys
    /\ \E o \in listed : /\ o.LastModified.utc > analyzer[1].end_datetime_utc.utc
                         /\ o.Key \notin SelectedKeys

\* C2: the interval held by a constructed ELBLogAnalyzer satisfies
\* start <= end, for every supplied start and end.
C2_StartNotAfterEnd ==
    analyzer # <<>> =>
        analyzer[1].start_datetime.utc <= analyzer[1].end_datetime.utc

\* C3: a record returned by _parse_log_line comes from a line that matches
\* the grammar, has a well-formed request, three durations that are each a
\* number or '-', and a user agent other than '-'.
C3_RecordOnlyFromValidLine ==
    entry.kind = "record" =>
        /\ line.grammar
        /\ line.request \in {"GET /a HTTP/1.1", "GET /b HTTP/1.1"}
        /\ \A tok \in {line.request_processing_time, line.target_processing_time,
                       line.response_processing_time} :
              tok \in {"-", "0.5", "1.0", "-0.2"}
        /\ line.user_agent # "-"

\* a lone line whose only defect is the user agent '-' was parsed and gave
\* no record
C3_Witness ==
    /\ entry.kind = "None"
    /\ line.grammar
    /\ line.user_agent = "-"
    /\ line.request = "GET /a HTTP/1.1"
    /\ line.timestamp = "2024-01-01T00:00:00.000000Z"
    /\ line.request_processing_time = "0.5"
    /\ line.target_processing_time = "-"
    /\ line.response_processing_time = "1.0"

\* a line every check of the parser accepts
ValidLine(l) ==
    /\ l.grammar
    /\ l.request \in {"GET /a HTTP/1.1", "GET /b HTTP/1.1"}
    /\ \A tok \in {l.request_processing_time, l.target_processing_time,
                   l.response_processing_time} : tok \in {"-", "0.5", "1.0", "-0.2"}
    /\ l.timestamp \in {"2024-01-01T00:00:00.000000Z", "2024-01-01T00:01:00.000000Z"}
    /\ l.user_agent # "-"

\* C4: whatever makes a line of a file fail to parse, _parse_log_file drops
\* that line only: the worker of the file returns, with one record per
\* valid line of the file.
C4_BadLineDroppedFileContinues ==
    \A b \in DOMAIN logDir :
        ps[b] \in Finished =>
            /\ ps[b] = "ok"
            /\ parse_log_file(logDir[b], timezone).kind = "ok"
            /\ Len(parse_log_file(logDir[b], timezone).logs) =
                  Cardinality({i \in DOMAIN logDir[b] : ValidLine(logDir[b][i])})

\* C5: a parse worker that ends with an exception never makes parse_logs
\* raise: the batch is not failed.
C5_ParseWorkerErrorKeepsBatch ==
    ~(AnyRaised(ps) /\ pc = "except")

\* C6: a failed download of one selected key is caught and logged and does
\* not abort the batch: download_logs does not raise, and when it returns
\* the directory every selected key has been attempted and every key whose
\* download succeeded is staged.
C6_DownloadFailureKeepsBatch ==
    (\E k \in Keys : dl[k] \in FailedStates) =>
        /\ pc = "except" => gz_directory
        /\ pc # "download" => \A k \in Keys : dl[k] # "raised"
        /\ pc = "downloaded" =>
              /\ gz_directory
              /\ \A k \in SelectedKeys : dl[k] \in Finished
              /\ gzDir = {Basename(k) : k \in {x \in SelectedKeys : dl[x] = "ok"}}

\* download_logs returned with one download that raised and was logged and
\* another that was staged
C6_Witness ==
    /\ pc = "downloaded"
    /\ \E k \in SelectedKeys : dl[k] = "logged"
    /\ \E k \in SelectedKeys : dl[k] = "ok" /\ Basename(k) \in gzDir

\* C7: a failed decompression of one staged .gz file is logged and skipped:
\* decompress_logs does not raise, and when it returns the directory every
\* staged file has been processed and every file that decompressed has its
\* .log file.
C7_DecompressFailureKeepsStage ==
    (\E b \in Bases : dc[b] \in FailedStates) =>
        /\ pc = "except" => log_directory
        /\ \A b \in Bases : dc[b] # "raised"
        /\ pc = "decompressed" =>
              /\ log_directory
              /\ \A b \in gzDir : dc[b] \in {"ok", "caught"}
              /\ \A b \in gzDir : dc[b] = "ok" => b \in DOMAIN logDir

\* decompress_logs returned with one file that failed and another that
\* was decompressed
C7_Witness ==
    /\ pc = "decompressed"
    /\ \E b \in gzDir : dc[b] = "caught"
    /\ \E b \in gzDir : dc[b] = "ok" /\ b \in DOMAIN logDir

\* C8: when process_logs has returned, on whatever path, the compressed and
\* the decompressed staging directory are both empty.
C8_StagingCleanedOnReturn ==
    pc = "returned" => gzDir = {} /\ DOMAIN logDir = {}

\* C9: the stages run in order and never overlap: download workers are
\* active only inside download_logs, decompress workers only inside
\* decompress_logs and after download_logs returned, parse workers only
\* inside parse_logs and after decompress_logs returned, and analysis and
\* writing only when no worker of any stage is active.
C9_StagesDoNotOverlap ==
    /\ (\E k \in Keys : dl[k] \in Active) => pc = "download"
    /\ (\E b \in Bases : dc[b] \in Active) => pc = "decompress"
    /\ (\E b \in Bases : ps[b] \in Active) => pc = "parse"
    /\ (\E b \in Bases : dc[b] # "idle") =>
          gz_directory /\ \A k \in Keys : dl[k] \notin Active
    /\ (\E b \in Bases : ps[b] # "idle") =>
          log_directory /\ \A b2 \in Bases : dc[b2] \notin Active
    /\ (pc \in {"analyze", "save"} \/ analysis_data \/ report_saved) =>
          /\ \A k \in Keys : dl[k] \notin Active
          /\ \A b \in Bases : dc[b] \notin Active /\ ps[b] \notin Active
          /\ log_directory
    /\ report_saved => analysis_data

\* the report was written after two files went through all three pools
C9_Witness ==
    /\ report_saved
    /\ Cardinality({k \in Keys : dl[k] = "ok"}) = 2
    /\ Cardinality({b \in Bases : dc[b] = "ok"}) = 2
    /\ Cardinality({b \in Bases : ps[b] = "ok"}) = 2

\* C10: no two workers of a stage work on the same file at the same time:
\* two running download workers write different staging files.  (The units
\* of the decompress and parse pools are the distinct file names.)
C10_WorkersOwnTheirFile ==
    \A k1, k2 \in Keys :
        (k1 # k2 /\ dl[k1] = "running" /\ dl[k2] = "running")
            => Basename(k1) # Basename(k2)


\* C11: in every stage the units running at one time never exceed the
\* executor's pool size, which is fixed for the run whatever the number of
\* files; the units beyond it stay queued until a worker is free
C11_PoolBoundsConcurrency ==
    /\ max_workers \in 1..MaxWorkers
    /\ Cardinality(Running(dl)) <= max_workers
    /\ Cardinality(Running(dc)) <= max_workers
    /\ Cardinality(Running(ps)) <= max_workers
PoolFullAndWaiting(pool) ==
    /\ Cardinality(Running(pool)) = max_workers
    /\ \E u \in DOMAIN pool : pool[u] = "queued"
C11_Witness ==
    /\ Cardinality(DOMAIN files_to_download) > max_workers
    /\ PoolFullAndWaiting(dl) \/ PoolFullAndWaiting(dc) \/ PoolFullAndWaiting(ps)


RecordsWith(f, d) ==
    Cardinality({i \in 1..Len(parsed_logs) : startswith(parsed_logs[i][f], d)})
CountTotal(rows) == SumVals(rows)
ElbCountTable(d) == tables["ELB " \o d \o "xx Count"]
BackendCountTable(d) == tables["Backend " \o d \o "xx Count"]

\* C12: in each of the six status-family tables analyze_logs returns, the
\* Count column sums to the number of input records whose relevant status
\* code (ELB code for the ELB tables, backend code for the Backend tables)
\* starts with the table's digit
C12_StatusCountsSumToRecords ==
    analysis_data =>
        /\ \A d \in {"2", "3", "4", "5"} :
              CountTotal(ElbCountTable(d)) = RecordsWith("elb_status_code", d)
        /\ \A d \in {"4", "5"} :
              CountTotal(BackendCountTable(d)) = RecordsWith("target_status_code", d)
C12_Witness ==
    /\ analysis_data
    /\ Len(parsed_logs) = 3
    /\ parsed_logs[1] = parsed_logs[2]
    /\ parsed_logs[3] = [parsed_logs[1] EXCEPT !.timestamp = 1]
    /\ Len(buckets.elb_2xx_counts) = 2
    /\ tables["ELB 2xx Count"] = << <<3, "1.2.3.4", "/a", "200", "200">> >>

DictTotal(d) == SumVals([i \in 1..Len(d) |-> <<d[i].val>>])
ElbDict(d) == buckets["elb_" \o d \o "xx_counts"]
TargetDict(d) == buckets["target_" \o d \o "xx_counts"]
KeyCodes(dict, pos) == {FirstChar(dict[i].key[Len(dict[i].key) - pos]) : i \in 1..Len(dict)}

\* C13: every record is counted in at most one ELB dict, the one of the
\* first digit of its ELB code, and independently in at most one backend
\* dict, the one of the first digit of its backend code; a code that starts
\* with no bucket digit is counted nowhere on its side.  So of two 2xx
\* records that differ only in backend status (200, 503), both are in ELB
\* 2xx and one is in Backend 5xx
C13_RoutedByFirstDigitPerSide ==
    analysis_data =>
        /\ \A d \in {"2", "3", "4", "5"} :
              /\ DictTotal(ElbDict(d)) = RecordsWith("elb_status_code", d)
              /\ KeyCodes(ElbDict(d), 1) \subseteq {d}
        /\ \A d \in {"4", "5"} :
              /\ DictTotal(TargetDict(d)) = RecordsWith("target_status_code", d)
              /\ KeyCodes(TargetDict(d), 0) \subseteq {d}
C13_Witness ==
    /\ analysis_data
    /\ parsed_logs = <<BaseRecord, [BaseRecord EXCEPT !.target_status_code = "503"]>>
    /\ DictTotal(buckets.elb_2xx_counts) = 2
    /\ DictTotal(buckets.target_5xx_counts) = 1
    /\ DictTotal(buckets.target_4xx_counts) = 0


\* the record list with its records i and i+1 exchanged; every reordering
\* of a list is a succession of such exchanges
Swapped(logs, i) ==
    [k \in 1..Len(logs) |-> IF k = i THEN logs[i + 1]
                            ELSE IF k = i + 1 THEN logs[i] ELSE logs[k]]
Exchanges == 1..(Len(parsed_logs) - 1)
Reanalyzed(i, tie) == AnalyzeLogs(Swapped(parsed_logs, i), abuse_ip_set[1], tie)
Occurrences(rows, r) == Cardinality({k \in 1..Len(rows) : rows[k] = r})
SameRows(t, u) ==
    /\ Len(t) = Len(u)
    /\ \A k \in 1..Len(t) : Occurrences(t, t[k]) = Occurrences(u, t[k])
SortColumn(t) == [k \in 1..Len(t) |-> t[k][1]]
NotCut ==
    /\ \A f \in {"client_ip", "user_agent", "request"} : Len(Counted(parsed_logs, f)) <= TopN
    /\ Len(buckets.long_response_times) <= TopN

\* C14 as stated: analyze_logs is order-independent.  For every record list
\* and every reordering of it the result tables are identical, row order
\* included, whatever the sort does with rows of equal key
C14_TablesIdenticalInEveryOrder ==
    analysis_data =>
        \A i \in Exchanges : \E tie \in TieOrders : Reanalyzed(i, tie) = tables

\* C14 amended: for every record list none of whose tables is cut at 100
\* rows, and every reordering of it, each result table has the same rows
\* with the same multiplicities and the same sort column (Count, Timestamp,
\* Response time) from top to bottom; only the order of rows whose sort
\* value is equal follows the order of the records.  (Stated where
\* analyze_logs has just returned; the tables do not change afterwards.)
C14_TablesSameUpToTies ==
    pc = "save" /\ NotCut =>
        \A i \in Exchanges : \A name \in SheetNames :
            /\ SameRows(tables[name], Reanalyzed(i, "kept")[name])
            /\ SortColumn(tables[name]) = SortColumn(Reanalyzed(i, "kept")[name])
C14_Witness ==
    /\ analysis_data
    /\ NotCut
    /\ Len(parsed_logs) = 2
    /\ parsed_logs[1].client_ip # parsed_logs[2].client_ip
    /\ tables["Top 100 Client IP"][1][2] = parsed_logs[1].client_ip
    /\ Reanalyzed(1, "kept")["Top 100 Client IP"][1][2] = parsed_logs[2].client_ip
    /\ SameRows(tables["Top 100 Client IP"], Reanalyzed(1, "kept")["Top 100 Client IP"])


\* the rankings: table name, the record field it counts
Rankings ==
    {<<"Top 100 Client IP", "client_ip">>, <<"Top 100 User Agents", "user_agent">>,
     <<"Top 100 Request URL", "request">>}
Frequency(f, v) == Cardinality({i \in 1..Len(parsed_logs) : parsed_logs[i][f] = v})
FirstSeen(f, v) == CHOOSE i \in 1..Len(parsed_logs) :
                       /\ parsed_logs[i][f] = v
                       /\ \A j \in 1..(i - 1) : parsed_logs[j][f] # v
Listed(t) == {t[k][2] : k \in 1..Len(t)}
Unlisted(t, f) == {parsed_logs[i][f] : i \in 1..Len(parsed_logs)} \ Listed(t)
Descending(t) == \A k \in 1..(Len(t) - 1) : t[k][1] >= t[k + 1][1]

\* C15: each of the three rankings is sorted by descending frequency, has
\* at most 100 rows, one per value, each with the value's true number of
\* occurrences in the record list, and no value left out of it occurs more
\* often than the last listed value
C15_RankingIsTopHundredByFrequency ==
    analysis_data =>
        \A r \in Rankings :
            LET t == tables[r[1]]
                f == r[2]
            IN  /\ Descending(t)
                /\ Len(t) <= TopN
                /\ Cardinality(Listed(t)) = Len(t)
                /\ \A k \in 1..Len(t) :
                      t[k][1] >= 1 /\ t[k][1] = Frequency(f, t[k][2])
                /\ Unlisted(t, f) # {} =>
                      /\ Len(t) = TopN
                      /\ \A v \in Unlisted(t, f) : Frequency(f, v) <= t[Len(t)][1]
C15_Witness ==
    /\ analysis_data
    /\ \E r \in Rankings :
          /\ Len(tables[r[1]]) = TopN
          /\ Unlisted(tables[r[1]], r[2]) # {}
          /\ tables[r[1]][1][1] = 1 + MaxExtra
          /\ tables[r[1]][TopN][1] = 1

\* C16: in each ranking, values of equal frequency stand in the order in
\* which they were first observed in the record list, and of the values
\* with the frequency of the last row the ones observed first are kept
C16_TiesByFirstObserved ==
    analysis_data =>
        \A r \in Rankings :
            LET t == tables[r[1]]
                f == r[2]
            IN  /\ \A k \in 1..(Len(t) - 1) :
                      t[k][1] = t[k + 1][1] =>
                          FirstSeen(f, t[k][2]) < FirstSeen(f, t[k + 1][2])
                /\ \A v \in Unlisted(t, f) :
                      Frequency(f, v) = t[Len(t)][1] =>
                          FirstSeen(f, v) > FirstSeen(f, t[Len(t)][2])
C16_Witness ==
    /\ analysis_data
    /\ \E r \in Rankings :
          LET t == tables[r[1]]
          IN  /\ Len(t) = TopN
              /\ t[TopN - 1][1] = t[TopN][1]
              /\ \E v \in Unlisted(t, r[2]) : Frequency(r[2], v) = t[TopN][1]
              /\ t[1][1] > t[TopN][1]

SlowTable == tables["Top 100 Response Time"]
SlowRow(log) ==
    <<log.response_time, strftime(log.timestamp), log.client_ip, log.target_ip,
      log.request, log.elb_status_code, log.target_status_code>>
SlowRecords == {i \in 1..Len(parsed_logs) : parsed_logs[i].response_time >= SlowThreshold}
RecordsAt(d) == Cardinality({i \in 1..Len(parsed_logs) : parsed_logs[i].response_time = d})
RowsAt(d) == Cardinality({k \in 1..Len(SlowTable) : SlowTable[k][1] = d})

\* C17: the slow-request table holds only records whose total duration is
\* at least 1.0, one row per such record (equal records are not grouped),
\* sorted by duration descending, at most 100 rows, and every record left
\* out is no slower than the last record kept.  (Stated where analyze_logs
\* has just returned; the table does not change afterwards.)
C17_SlowTableIsTopHundredSlowest ==
    pc = "save" =>
        /\ \A k \in 1..Len(SlowTable) :
              /\ SlowTable[k][1] >= SlowThreshold
              /\ Occurrences(SlowTable, SlowTable[k])
                     <= Cardinality({i \in SlowRecords : SlowRow(parsed_logs[i]) = SlowTable[k]})
        /\ Descending(SlowTable)
        /\ Len(SlowTable) = Min(TopN, Cardinality(SlowRecords))
        /\ \A i \in SlowRecords :
              LET d == parsed_logs[i].response_time
              IN  \/ RowsAt(d) = RecordsAt(d)
                  \/ Len(SlowTable) = TopN /\ d <= SlowTable[TopN][1]
C17_Witness ==
    /\ pc = "save"
    /\ Len(SlowTable) = TopN
    /\ Cardinality(SlowRecords) > TopN
    /\ Cardinality(SlowRecords) < Len(parsed_logs)
    /\ RowsAt(SlowThreshold) >= 1
    /\ RowsAt(SlowThreshold) < RecordsAt(SlowThreshold)
    /\ SlowTable[1][1] > SlowThreshold


Ceiling(r, c) == (r + c - 1) \div c
RowsIn(sh) == sh.first..sh.last

\* C18: for a table of R rows and the per-sheet ceiling C, create_sheet
\* writes exactly ceil(R / C) sheets (none for R = 0, R / C for a multiple
\* of C), every row of the table is in exactly one sheet, and the sheets in
\* suffix order, one after the other, give the rows in the table's order
C18_SheetsPartitionTheTable ==
    pc = "sheet_written" =>
        /\ Len(workbook) = Ceiling(total_rows, max_rows_per_sheet)
        /\ \A row \in 1..total_rows :
              Cardinality({k \in 1..Len(workbook) : row \in RowsIn(workbook[k])}) = 1
        /\ \A k \in 1..Len(workbook) :
              /\ workbook[k].first = IF k = 1 THEN 1 ELSE workbook[k - 1].last + 1
              /\ workbook[k].title = sheet_name \o (IF k = 1 THEN "" ELSE "_" \o ToString(k))
        /\ Len(workbook) > 0 => workbook[Len(workbook)].last = total_rows


\* download_logs has returned without selecting a key
EmptySelection == gz_directory /\ files_to_download = <<>>

\* C19: when the selection is empty the run does not crash.  No download
\* worker is started, decompress_logs and parse_logs return with nothing
\* to do, no table is built and no sheet or workbook is written, and the
\* run returns with both staging directories empty; the only exception
\* such a run can meet is the operating system refusing to create the
\* decompression directory
C19_EmptySelectionEndsCleanly ==
    EmptySelection =>
        /\ \A k \in Keys : dl[k] = "idle"
        /\ \A b \in Bases : dc[b] = "idle" /\ ps[b] = "idle"
        /\ gzDir = {} /\ logDir = <<>>
        /\ parsed_logs = <<>>
        /\ pc \notin {"download", "analyze", "save"}
        /\ ~analysis_data /\ fetch = "none"
        /\ ~report_saved /\ workbook = <<>>
        /\ log_directory => exc = "none" /\ pc # "except"
C19_Witness ==
    /\ EmptySelection
    /\ pc = "returned"
    /\ exc = "none"
    /\ log_directory
    /\ pages_seen = MaxPages


\* C20: when the fetch of the reputation list fails, analyze_logs goes on
\* with an empty reputation set: it returns all its tables, every client
\* address in the ranking is flagged 'No', and the run goes on to write
\* the report
C20_FetchFailureFlagsNothing ==
    fetch = "failed" =>
        /\ analysis_data
        /\ abuse_ip_set = <<{}>>
        /\ \A name \in SheetNames : name \in DOMAIN tables
        /\ Len(tables["Top 100 Client IP"]) >= 1
        /\ \A k \in 1..Len(tables["Top 100 Client IP"]) :
              tables["Top 100 Client IP"][k][3] = "No"
        /\ pc \in {"save", "clean_up", "returned", "except"}
        /\ pc = "returned" /\ exc = "none" => report_saved

\* ------------------------------------------------------------------ C21
DurFields == {"request_processing_time", "target_processing_time",
              "response_processing_time"}

\* C21: every record returned by _parse_log_line has request, target and
\* response processing times that are each >= 0, and its total response
\* time is the sum of the three.
C21_DurationsNonNegativeAndSummed ==
    entry.kind = "record" =>
        /\ \A f \in DurFields : entry.rec[f] >= 0
        /\ entry.rec.response_time = entry.rec.request_processing_time
                                     + entry.rec.target_processing_time
                                     + entry.rec.response_processing_time

\* ------------------------------------------------------------------ C22
\* the tokens float() accepts
NumericTokens == {tok \in DurTokens : Float(tok) # {}}

\* C22: _parse_time_field maps '-' to 0, a numeric token to its value and
\* every other token to None; a line with a rejected duration token gives
\* no record.
C22_DurationTokenMapping ==
    entry.kind # "idle" /\ line.grammar =>
        \A f \in DurFields :
            /\ line[f] = "-" => parse_time_field(line[f]) = {0}
            /\ line[f] \in NumericTokens => parse_time_field(line[f]) = Float(line[f])
            /\ line[f] \notin NumericTokens \cup {"-"} =>
                   /\ parse_time_field(line[f]) = {}
                   /\ entry.kind = "None"

C22_Witness ==
    /\ entry.kind = "None"
    /\ line.grammar
    /\ line.request_processing_time = "abc"
    /\ line.target_processing_time = "-"
    /\ line.response_processing_time = "0.5"
    /\ RequestUrl(line.request) # {}
    /\ parse_timestamp(line.timestamp) # {}
    /\ ~RejectsUserAgent(line.user_agent)

\* ------------------------------------------------------------------ C23
\* the writer raised: analyze_logs returned, save_to_excel was left and the
\* workbook is not complete
WriteFailed == analysis_data /\ pc # "save" /\ ~report_saved

\* C23: when writing the workbook fails, save_to_excel raises the exception
\* to process_logs, does not log the success message and does not open the
\* file explorer.
C23_FailedWriteSurfaces ==
    WriteFailed =>
        /\ exc = "Exception"
        /\ pc \in {"except", "returned"}
        /\ ~success_logged
        /\ ~explorer_opened

C23_Witness ==
    /\ WriteFailed
    /\ pc = "except"
    /\ workbook # <<>>
    /\ Len(workbook) < Len(SheetsOf(ordered_sheet_names, tables))

\* ------------------------------------------------------------------ C24
\* the matched lines that differ from l in at most one field
Variants(l) ==
    {[l EXCEPT !.timestamp = v] : v \in TsTokens}
    \cup {[l EXCEPT !.client_ip = v] : v \in ClientAddrs}
    \cup {[l EXCEPT !.target_ip = v] : v \in TargetAddrs}
    \cup {[l EXCEPT !.request_processing_time = v] : v \in DurTokens}
    \cup {[l EXCEPT !.target_processing_time = v] : v \in DurTokens}
    \cup {[l EXCEPT !.response_processing_time = v] : v \in DurTokens}
    \cup {[l EXCEPT !.request = v] : v \in RequestTokens}
    \cup {[l EXCEPT !.user_agent = v] : v \in UserAgents}

MatchedFields == DOMAIN GoodLine \ {"grammar"}

\* two tokens of field f that a lossless record may fail to tell apart: only
\* a '-' duration and a written zero
SameUpToSentinel(f, a, b) ==
    \/ a = b
    \/ f \in DurFields /\ "-" \in {a, b} /\ parse_time_field(a) = parse_time_field(b)

\* C24: the record of a matched line retains every matched field, so the
\* fields of the line can be reproduced from the record: two matched lines
\* with the same record agree on every field, up to a '-' duration.
C24_RecordRetainsMatchedFields ==
    entry.kind = "record" =>
        \A other \in Variants(line) :
            parse_log_line(other, timezone) = entry =>
                \A f \in MatchedFields : SameUpToSentinel(f, other[f], line[f])

\* ------------------------------------------------------------------ C25
\* a file of an earlier run is in the decompressed directory
StaleLogs == \E b \in DOMAIN logDir : StaleLine \in Range(logDir[b])

C26_ExpiredTokenIsRetried ==
    [][pc = "returned" =>
          IF exc = "ExpiredToken"
          THEN /\ retries' = retries + 1
               /\ retries' <= MAX_RETRIES
               /\ retries' < MAX_RETRIES => pc' = "start"
          ELSE retries' = retries /\ pc' = "exited"]_vars

\* ------------------------------------------------------------------ C27
\* C27: when --end is omitted the window of the analyzer ends at the
\* instant of the invocation in every zone, and every listed object last
\* modified between the start and the invocation is selected.
C27_OmittedEndIsInvocationTime ==
    analyzer # <<>> =>
        /\ analyzer[1].end_datetime_utc.utc = clock
        /\ \A o \in listed :
              (analyzer[1].start_datetime_utc.utc <= o.LastModified.utc
                   /\ o.LastModified.utc <= clock) =>
              o.Key \in Range(files_to_download)

\* ------------------------------------------------------------------ C28
\* C28: after decompress_logs the decompressed directory has no .log file
\* of a staged file whose decompression failed, and parse_logs starts no
\* worker on such a file.
C28_FailedDecompressionLeavesNoLog ==
    pc \in {"decompressed", "parse"} =>
        \A b \in Bases :
            dc[b] = "caught" => b \notin DOMAIN logDir /\ ps[b] = "idle"

\* ------------------------------------------------------------------ C29
\* the orders in which the files of S can complete
CompletionOrders(S) ==
    {o \in [1..Cardinality(S) -> S] : \A i, j \in DOMAIN o : o[i] = o[j] => i = j}

RECURSIVE Blocks(_)
\* the records accepted from the files of order, file after file
Blocks(order) ==
    IF order = <<>> THEN <<>>
    ELSE parse_log_file(logDir[Head(order)], timezone).logs \o Blocks(Tail(order))

\* no parse worker has raised
NoParseRaise == \A b \in Bases : ps[b] \in {"idle", "queued", "running", "ok"}

\* C29: when no parse worker raises, the list parse_logs builds and returns
\* is, for some completion order of the files, the records accepted from
\* each completed file as one block after the other: nothing is lost,
\* nothing is duplicated and no two files' records are mixed.
C29_ParsedLogsAreWholeBlocks ==
    pc \in {"parse", "analyze", "clean_up"} /\ NoParseRaise =>
        /\ \E order \in CompletionOrders({b \in Bases : ps[b] = "ok"}) :
              parsed_logs = Blocks(order)
        /\ pc # "parse" => \A b \in DOMAIN logDir : ps[b] = "ok"

\* both files parsed, the second one first, with different records
C29_Witness ==
    /\ pc = "analyze"
    /\ NoParseRaise
    /\ parsed_logs = Blocks(<<2, 1>>)
    /\ parsed_logs # Blocks(<<1, 2>>)
    /\ Len(parse_log_file(logDir[1], timezone).logs) = 2
    /\ Len(parse_log_file(logDir[2], timezone).logs) = 1

\* ------------------------------------------------------------------ C30
\* C30: every sheet create_sheet writes, its header row counted together
\* with the data rows create_sheet puts below it, has at most
\* max_rows_per_sheet rows, for every table size.
C30_SheetWithHeaderFitsLimit ==
    pc = "sheet_written" =>
        \A k \in 1..Len(workbook) : 1 + workbook[k].data_rows <= max_rows_per_sheet

=============================================================================
